---------------------------- MODULE Spec2Model ----------------------------
(***************************************************************************)
(* dire_wolf_to_navit.py: the maintenance thread (ingest the Dire Wolf CSV *)
(* log into POI_DICTIONARY, remove stale entries, rewrite the Navit POI    *)
(* file), the external logger that appends rows to the CSV log, and the    *)
(* wall clock.                                                             *)
(*                                                                         *)
(* Text is a tuple of one-character strings ("33.1" is <<"3","3",".","1">>)*)
(* so that strip(), isspace() and float() are computed on the characters.  *)
(* An isotime string is the tuple <<date, hh, mm, zone>> of its fields,    *)
(* standing for the text  date "T" hh ":" mm ":00" zone  (hh and mm are    *)
(* the numbers their two digits spell).  Time is counted in minutes since  *)
(* 2024-01-01T00:00:00 UTC.                                                *)
(***************************************************************************)
EXTENDS Integers, Sequences, FiniteSets, TLC

\* ------------------------------------------------------------- bounds
\* Rows the CSV log file can hold before the logger stops appending.
MaxLog == 2
\* The wall clock at the start, in minutes since 2024-01-01T00:00Z (01:00).
StartNow == 60
\* Minutes the wall clock can advance.
MaxTicks == 1
MaxBody == 3

\* ------------------------------------------------- configuration (l.13-47)
MINUTES_UNTIL_APRS_INACTIVE == 5
MINUTES_UNTIL_APRS_REMOVED == 60
CLEAR_DIRE_WOLF_CSV_LOG_FILE_AFTER_READING == TRUE
\* Python's None, as a value of the same shape as text.
None == <<"None">>
\* A threshold set to None in the configuration.
Disabled == -1

\* --------------------------------------------------------------- text
Whitespace == {" ", "\t"}
DigitChars == <<"0", "1", "2", "3", "4", "5", "6", "7", "8", "9">>
IsDigit(c) == \E i \in 1..10 : DigitChars[i] = c
DigitVal(c) == (CHOOSE i \in 1..10 : DigitChars[i] = c) - 1

RECURSIVE LStrip(_)
LStrip(s) == IF s # <<>> /\ Head(s) \in Whitespace THEN LStrip(Tail(s)) ELSE s
RECURSIVE RStrip(_)
RStrip(s) ==
    IF s # <<>> /\ s[Len(s)] \in Whitespace THEN RStrip(SubSeq(s, 1, Len(s) - 1)) ELSE s
\* str.strip()
Strip(s) == RStrip(LStrip(s))
\* str.isspace(): at least one character, and all of them whitespace.
IsSpace(s) == s # <<>> /\ \A i \in 1..Len(s) : s[i] \in Whitespace

AllDigits(s) == \A i \in 1..Len(s) : IsDigit(s[i])
RECURSIVE DigitsValue(_)
DigitsValue(s) ==
    IF s = <<>> THEN 0 ELSE 10 * DigitsValue(SubSeq(s, 1, Len(s) - 1)) + DigitVal(s[Len(s)])
\* The first three fractional digits, as thousandths.
Thousandths(frac) ==
    LET d(i) == IF i <= Len(frac) THEN DigitVal(frac[i]) ELSE 0
    IN  100 * d(1) + 10 * d(2) + d(3)

\* float(text): [ok, nan, milli].  ok is FALSE where float() raises; milli is
\* the value in thousandths, cut toward zero (the comparisons below are with
\* whole degrees, which the cut does not change).
ParseFloat(s) ==
    LET bad == [ok |-> FALSE, nan |-> FALSE, milli |-> 0]
        t == Strip(s)
        signed == t # <<>> /\ Head(t) \in {"+", "-"}
        neg == t # <<>> /\ Head(t) = "-"
        u == IF signed THEN Tail(t) ELSE t
        dots == {i \in 1..Len(u) : u[i] = "."}
        dot == IF dots = {} THEN Len(u) + 1 ELSE CHOOSE i \in dots : \A j \in dots : i <= j
        int == SubSeq(u, 1, dot - 1)
        frac == SubSeq(u, dot + 1, Len(u))
        mag == 1000 * DigitsValue(int) + Thousandths(frac)
    IN  IF s = None THEN bad
        ELSE IF u = <<"n", "a", "n">> THEN [ok |-> TRUE, nan |-> TRUE, milli |-> 0]
        ELSE IF Len(int) + Len(frac) = 0 \/ ~AllDigits(int) \/ ~AllDigits(frac) THEN bad
        ELSE [ok |-> TRUE, nan |-> FALSE, milli |-> IF neg THEN 0 - mag ELSE mag]

\* ------------------------------------------------------- field validator
\* (mutant) the closed interval.
latitude_string_valid_closed(latitude_string) ==
    LET f == ParseFloat(latitude_string)
    IN  f.ok /\ ~f.nan /\ f.milli >= -90000 /\ f.milli <= 90000

\* l.65-71
latitude_string_valid(latitude_string) ==
    LET f == ParseFloat(latitude_string)
    IN  f.ok /\ ~f.nan /\ f.milli > -90000 /\ f.milli < 90000

\* l.74-80
longitude_string_valid(longitude_string) ==
    LET f == ParseFloat(longitude_string)
    IN  f.ok /\ ~f.nan /\ f.milli > -180000 /\ f.milli < 180000

\* ------------------------------------------------------------- isotime
\* The calendar days the model knows, as minutes since 2024-01-01T00:00.
DayStart(date) == CASE date = "2024-01-01" -> 0
KnownDates == {"2024-01-01"}
\* The UTC offsets "+HH:MM" the model knows, in minutes.
KnownOffsets == {"+00:00", "+01:00", "-01:00"}
OffsetMinutes(zone) ==
    CASE zone = "+00:00" -> 0 [] zone = "+01:00" -> 60 [] zone = "-01:00" -> 0 - 60

\* iso_string.replace('Z', '+00:00'): of the fields of an isotime string only
\* the zone can hold a 'Z'.
ReplaceZ(iso_string) ==
    IF Len(iso_string) = 4 /\ iso_string[4] = "Z"
    THEN [iso_string EXCEPT ![4] = "+00:00"]
    ELSE iso_string

\* datetime.fromisoformat(text): ok is FALSE where it raises ValueError.  With
\* no zone the datetime is naive (tzinfo None); minute is its wall time.
fromisoformat(text) ==
    LET bad == [ok |-> FALSE, aware |-> FALSE, minute |-> 0, utcoffset |-> 0]
    IN  IF Len(text) # 4 THEN bad
        ELSE IF text[1] \notin KnownDates \/ text[2] \notin 0..23 \/ text[3] \notin 0..59
        THEN bad
        ELSE IF text[4] = ""
        THEN [ok |-> TRUE, aware |-> FALSE,
              minute |-> DayStart(text[1]) + 60 * text[2] + text[3], utcoffset |-> 0]
        ELSE IF text[4] \in KnownOffsets
        THEN [ok |-> TRUE, aware |-> TRUE,
              minute |-> DayStart(text[1]) + 60 * text[2] + text[3],
              utcoffset |-> OffsetMinutes(text[4])]
        ELSE bad

iso_string_valid(iso_string) == fromisoformat(ReplaceZ(iso_string)).ok

\* then + timedelta(minutes = m) < now, with now an aware UTC datetime:
\* "raise" (TypeError) when then is naive, else "true" or "false".
LaterThan(now_, then, m) ==
    IF ~then.aware THEN "raise"
    ELSE IF (then.minute - then.utcoffset) + m < now_ THEN "true" ELSE "false"

\* Python's string order on two isotime strings of the model: the fields are
\* of fixed width, so the texts compare field by field; the zones compare by
\* their first characters ('' < '+' < '-' < 'Z').
ZoneRank(zone) ==
    CASE zone = "" -> 0 [] zone = "+00:00" -> 1 [] zone = "+01:00" -> 2
      [] zone = "-01:00" -> 3 [] zone = "Z" -> 4
IsoStringLess(a, b) ==
    \/ DayStart(a[1]) < DayStart(b[1])
    \/ a[1] = b[1] /\ a[2] < b[2]
    \/ a[1] = b[1] /\ a[2] = b[2] /\ a[3] < b[3]
    \/ a[1] = b[1] /\ a[2] = b[2] /\ a[3] = b[3] /\ ZoneRank(a[4]) < ZoneRank(b[4])

\* ------------------------------------------------------ rows of the log
\* A row of the CSV log as csv.DictReader hands it over, cut to the fields
\* the program reads; a field the row is too short to hold is None.
Row(isotime, source, latitude, longitude, comment) ==
    [isotime |-> isotime, source |-> source, latitude |-> latitude,
     longitude |-> longitude, comment |-> comment]

N0CALL == <<"N", "0", "C", "A", "L", "L">>
W1AW == <<"W", "1", "A", "W">>
\* DIRE_WOLF_CSV_FIELD_NAMES[3]: what the source field of a header row holds.
SourceHeader == <<"s", "o", "u", "r", "c", "e">>
Lat331 == <<"3", "3", ".", "1">>
Lat332 == <<"3", "3", ".", "2">>
Lon1121 == <<"-", "1", "1", "2", ".", "1">>
Test == <<"t", "e", "s", "t">>

\* Rows that differ in source and report time: the stations report at 00:00,
\* 00:01, 00:55 and 00:56 UTC, once with an explicit offset (01:00+01:00 is
\* 00:00 UTC), once with no zone at all, and once with an hour of 25.
TimeRows ==
    { Row(<<"2024-01-01", 0, 1, "Z">>, N0CALL, Lat331, Lon1121, <<" ">> \o Test),
      Row(<<"2024-01-01", 0, 0, "Z">>, N0CALL, Lat332, Lon1121, <<>>),
      Row(<<"2024-01-01", 0, 56, "Z">>, N0CALL, Lat331, Lon1121, None),
      Row(<<"2024-01-01", 0, 30, "">>, N0CALL, Lat331, Lon1121, <<>>),
      Row(<<"2024-01-01", 0, 55, "+00:00">>, W1AW, Lat331, Lon1121, Test),
      Row(<<"2024-01-01", 1, 0, "+01:00">>, W1AW, Lat331, Lon1121, <<>>),
      Row(<<"2024-01-01", 25, 0, "Z">>, W1AW, Lat332, Lon1121, <<>>) }

\* Rows that differ from one valid row in one field: the source, the latitude
\* or the longitude; a row of field names; rows too short to hold every field.
Fresh == <<"2024-01-01", 0, 56, "Z">>
FieldRows ==
    { Row(Fresh, N0CALL, Lat331, Lon1121, Test),
      Row(Fresh, <<>>, Lat331, Lon1121, Test),
      Row(Fresh, <<" ", "\t">>, Lat331, Lon1121, Test),
      Row(Fresh, SourceHeader, Lat331, Lon1121, Test),
      Row(Fresh, None, None, None, None),
      Row(<<"isotime">>, SourceHeader, <<"l", "a", "t", "i", "t", "u", "d", "e">>,
          <<"l", "o", "n", "g", "i", "t", "u", "d", "e">>,
          <<"c", "o", "m", "m", "e", "n", "t">>),
      Row(Fresh, N0CALL, <<"9", "5", ".", "0">>, Lon1121, Test),
      Row(Fresh, N0CALL, <<"9", "0">>, Lon1121, Test),
      Row(Fresh, N0CALL, <<"-", "9", "0", ".", "0">>, Lon1121, Test),
      Row(Fresh, N0CALL, <<" ", "-", "8", "9", ".", "9", "9", "9">>, Lon1121, Test),
      Row(Fresh, N0CALL, <<"a", "b", "c">>, Lon1121, Test),
      Row(Fresh, N0CALL, <<"n", "a", "n">>, Lon1121, Test),
      Row(Fresh, N0CALL, None, None, None),
      Row(Fresh, N0CALL, Lat331, <<"2", "0", "0", ".", "0">>, Test),
      Row(Fresh, N0CALL, Lat331, <<"a", "b", "c">>, Test),
      Row(Fresh, N0CALL, Lat331, None, None),
      Row(<<"2024-01-01", 25, 0, "Z">>, N0CALL, Lat331, Lon1121, Test) }

\* ---------------------------------------------------------------- state
VARIABLES
    now,             \* the wall clock (UTC), in minutes
    config,          \* the thresholds and the comment flag the process runs with
    POI_DICTIONARY,  \* the entries, in the dict's (insertion) order
    logFile,         \* DIRE_WOLF_CSV_LOG_FILE_PATH: [exists, rows]
    poiFile,         \* NAVIT_POI_FILE_PATH on disk: [exists, lines]
    poiBuffer,       \* lines written to the open POI stream and not yet on disk
    pc,              \* where the maintenance thread is
    todo,            \* what the running loop still has to visit
    batch,           \* history: the rows the running ingest has read
    examined,        \* history: {[source, at]}, when this pass's evict read the clock
    rendered,        \* history: the lines of the last render that completed
    gps,             \* the last line the main thread printed to standard output
    utcOffset,       \* the host's time zone: local time minus UTC, in minutes
    input,           \* the argument of a call of the NMEA encoder on its own
    output           \* what that call returned

vars == <<now, config, POI_DICTIONARY, logFile, poiFile, poiBuffer, pc, todo,
          batch, examined, rendered, gps, utcOffset, input, output>>

\* What the maintenance thread, the logger and the clock never touch.
emitter == <<gps, utcOffset, input, output>>

\* ------------------------------------------------- the dict (l.50, 211, 238)
Keys(dict) == [i \in 1..Len(dict) |-> dict[i].source]
HasKey(dict, key) == \E i \in 1..Len(dict) : dict[i].source = key
Get(dict, key) == dict[CHOOSE i \in 1..Len(dict) : dict[i].source = key]
\* (mutant) an entry is replaced only by one whose isotime text is not smaller.
SetItemNewest(dict, key, entry) ==
    IF HasKey(dict, key)
    THEN [i \in 1..Len(dict) |->
            IF dict[i].source = key /\ ~IsoStringLess(entry.isotime, dict[i].isotime)
            THEN entry ELSE dict[i]]
    ELSE Append(dict, entry)
\* POI_DICTIONARY[key] = entry: a key the dict holds keeps its place.
SetItem(dict, key, entry) ==
    IF HasKey(dict, key)
    THEN [i \in 1..Len(dict) |-> IF dict[i].source = key THEN entry ELSE dict[i]]
    ELSE Append(dict, entry)
\* del POI_DICTIONARY[key]
DelItem(dict, key) == SelectSeq(dict, LAMBDA e : e.source # key)

\* ------------------------------------------- ingest (l.177-217), per row
valid_source(row) ==
    row.source # None /\ row.source # SourceHeader /\ ~IsSpace(row.source)
valid_latitude(row) == row.latitude # None /\ latitude_string_valid(row.latitude)
\* l.194: the longitude must be there, and the LATITUDE in range.
valid_longitude(row) == row.longitude # None /\ longitude_string_valid(row.latitude)
valid_isotime(row) == row.isotime # None /\ iso_string_valid(row.isotime)
all_valid(row) ==
    valid_source(row) /\ valid_latitude(row) /\ valid_longitude(row) /\ valid_isotime(row)

\* l.202-208
EntryOf(row) ==
    [isotime |-> row.isotime, source |-> row.source, latitude |-> row.latitude,
     longitude |-> row.longitude,
     comment |-> IF row.comment # None THEN Strip(row.comment) ELSE <<>>]

\* (mutant) break for continue at l.196: the first row that is not valid ends
\* the batch.
IngestRowsAbort(rows, dict) ==
    LET bad == {i \in 1..Len(rows) : ~all_valid(rows[i])}
        upto == IF bad = {} THEN Len(rows)
                ELSE (CHOOSE i \in bad : \A j \in bad : i <= j) - 1
        F[k \in 0..upto] ==
            IF k = 0 THEN dict ELSE SetItem(F[k - 1], rows[k].source, EntryOf(rows[k]))
    IN  F[upto]
\* l.189-211: the rows in file order; a row that is not valid is skipped.
RECURSIVE IngestRows(_, _)
IngestRows(rows, dict) ==
    IF rows = <<>> THEN dict
    ELSE IF ~all_valid(Head(rows)) THEN IngestRows(Tail(rows), dict)
    ELSE IngestRows(Tail(rows), SetItem(dict, Head(rows).source, EntryOf(Head(rows))))

\* ------------------------------------------------------ render (l.143-174)
\* sorted(values, key = isotime, reverse = True): stable, greatest text first.
RECURSIVE InsertDescending(_, _)
InsertDescending(entry, sorted) ==
    IF sorted = <<>> THEN <<entry>>
    ELSE IF IsoStringLess(Head(sorted).isotime, entry.isotime)
    THEN <<entry>> \o sorted
    ELSE <<Head(sorted)>> \o InsertDescending(entry, Tail(sorted))
RECURSIVE SortedDescending(_)
SortedDescending(values) ==
    IF values = <<>> THEN <<>>
    ELSE InsertDescending(values[Len(values)],
                          SortedDescending(SubSeq(values, 1, Len(values) - 1)))

\* ' \u2014 ': the em-dash is the one character written "U+2014" here.
EmDash == <<" ", "U+2014", " ">>
\* (mutant) <= for <.
IsInactiveInclusive(entry, now_) ==
    IF config.inactive = Disabled THEN "false"
    ELSE LaterThan(now_ + 1, fromisoformat(ReplaceZ(entry.isotime)), config.inactive)
\* l.161: "raise", or which icon.
IsInactive(entry, now_) ==
    IF config.inactive = Disabled THEN "false"
    ELSE LaterThan(now_, fromisoformat(ReplaceZ(entry.isotime)), config.inactive)
\* (mutant) SHOW_COMMENT_FIELD is not looked at.
LabelWithComment(entry) ==
    IF Len(Strip(entry.comment)) > 0
    THEN entry.source \o EmDash \o entry.comment
    ELSE entry.source
\* l.167-170
Label(entry) ==
    IF config.showComment /\ Len(Strip(entry.comment)) > 0
    THEN entry.source \o EmDash \o entry.comment
    ELSE entry.source
\* l.174: the line written for an entry.
PoiLine(entry, now_) ==
    [longitude |-> entry.longitude, latitude |-> entry.latitude,
     isotime |-> entry.isotime,
     icon_src |-> IF IsInactive(entry, now_) = "true" THEN "gprs_inactive.png"
                  ELSE "gprs_active.png",
     label |-> Label(entry)]

\* ------------------------------------------------------- evict (l.220-238)
\* (mutant) <= for <.
IsStaleInclusive(entry, now_) ==
    IF config.removed = Disabled THEN "false"
    ELSE LaterThan(now_ + 1, fromisoformat(ReplaceZ(entry.isotime)), config.removed)
\* (mutant) nothing is ever stale.
IsStaleNever(entry, now_) ==
    IF config.removed = Disabled THEN "false"
    ELSE IF LaterThan(now_, fromisoformat(ReplaceZ(entry.isotime)), config.removed) = "raise"
    THEN "raise" ELSE "false"
\* (mutant) the test for None at l.232 is left out: the configured 60 applies.
IsStaleUnguarded(entry, now_) ==
    LaterThan(now_, fromisoformat(ReplaceZ(entry.isotime)), MINUTES_UNTIL_APRS_REMOVED)
\* l.235: "raise", or whether the entry is deleted.
IsStale(entry, now_) ==
    IF config.removed = Disabled THEN "false"
    ELSE LaterThan(now_, fromisoformat(ReplaceZ(entry.isotime)), config.removed)

\* ----------------------------------------------- NMEA encoder (l.83-140)
\* The printable ASCII characters, from the space (code 32) to "~" (126).
Ascii ==
    <<" ", "!", "\"", "#", "$", "%", "&", "'", "(", ")", "*", "+", ",", "-", ".", "/",
      "0", "1", "2", "3", "4", "5", "6", "7", "8", "9", ":", ";", "<", "=", ">", "?",
      "@", "A", "B", "C", "D", "E", "F", "G", "H", "I", "J", "K", "L", "M", "N", "O",
      "P", "Q", "R", "S", "T", "U", "V", "W", "X", "Y", "Z", "[", "\\", "]", "^", "_",
      "U+0060", "a", "b", "c", "d", "e", "f", "g", "h", "i", "j", "k", "l", "m", "n", "o",
      "p", "q", "r", "s", "t", "u", "v", "w", "x", "y", "z", "{", "|", "}", "~">>
\* The code of each character of the table.
AsciiCode ==
    [c \in {Ascii[i] : i \in 1..Len(Ascii)} |->
        31 + (CHOOSE i \in 1..Len(Ascii) : Ascii[i] = c)]
\* ord(c); a character that is not printable ASCII is written "U+" and its
\* code in hex, and so is the grave accent (code 96) in the table above.
Ord(c) ==
    CASE c = "U+0000" -> 0 [] c = "U+0001" -> 1 [] c = "U+0060" -> 96
      [] c = "U+0080" -> 128 [] c = "U+00FF" -> 255 [] c = "U+2014" -> 8212
      [] OTHER -> AsciiCode[c]

\* a ^ b on non-negative integers.
Xor[a \in Nat, b \in Nat] ==
    IF a = 0 THEN b
    ELSE IF b = 0 THEN a
    ELSE ((a + b) % 2) + 2 * Xor[a \div 2, b \div 2]
\* l.86-92: the loop folds ^ over the codes of the characters, from 0.  ^ is
\* associative and 0 is neutral for it: the fold is taken here by halves,
\* F[lo, hi] being the fold of the characters from lo to hi.
XorOfCodes(sentence) ==
    LET F[lo \in 1..(Len(sentence) + 1), hi \in 0..Len(sentence)] ==
            IF lo > hi THEN 0
            ELSE IF lo = hi THEN Ord(sentence[lo])
            ELSE Xor[F[lo, (lo + hi) \div 2], F[((lo + hi) \div 2) + 1, hi]]
    IN  F[1, Len(sentence)]

HexDigits == <<"0", "1", "2", "3", "4", "5", "6", "7", "8", "9",
               "A", "B", "C", "D", "E", "F">>
\* The digits of n in an alphabet of Len(digits) digits, no leading zero.
RECURSIVE ToBase(_, _)
ToBase(n, digits) ==
    IF n < Len(digits) THEN <<digits[n + 1]>>
    ELSE ToBase(n \div Len(digits), digits) \o <<digits[(n % Len(digits)) + 1]>>
\* Zeros to the left up to the width; a longer text is left as it is.
RECURSIVE ZeroPad(_, _)
ZeroPad(text, width) ==
    IF Len(text) >= width THEN text ELSE ZeroPad(<<"0">> \o text, width)

\* The one member of a set of one member.
TheOne(set) == CHOOSE x \in set : TRUE
\* (mutant) the format {0:X}, not padded.
get_checksum_unpadded(sentence) ==
    TheOne({ToBase(XorOfCodes(s), HexDigits) : s \in {sentence}})
\* l.83-94.  (The sentence is bound as a value, so that it is computed once.)
get_checksum(sentence) ==
    TheOne({ZeroPad(ToBase(XorOfCodes(s), HexDigits), 2) : s \in {sentence}})

\* A coordinate in decimal degrees is [neg, degrees, nano]: the sign, the
\* whole degrees and the fraction in billionths of a degree (the floats of
\* the source taken as the decimals they are written as).
Coordinate(neg, degrees, nano) == [neg |-> neg, degrees |-> degrees, nano |-> nano]
\* l.13-14
LATITUDE == Coordinate(FALSE, 33, 435000000)
LONGITUDE == Coordinate(TRUE, 112, 8333340)
\* x < 0 (-0.0 is not).
IsNegative(x) == x.neg /\ (x.degrees > 0 \/ x.nano > 0)

\* minutes * 60.0 under {:09.6f}: the fraction of a degree in minutes, rounded
\* to the millionth, in millionths of a minute (computed in two parts, the
\* product being wider than 32 bits).
MicroMinutes(nano) ==
    (nano \div 1000) * 60 + (((nano % 1000) * 60 + 500) \div 1000)
\* {1:09.6f}: six decimals, zero-padded to nine characters.
FormatMinutes(micro) ==
    ZeroPad(ToBase(micro \div 1000000, DigitChars), 2)
        \o <<".">> \o ZeroPad(ToBase(micro % 1000000, DigitChars), 6)
\* l.101-108 and l.115-122, which differ by the letters only.
Nmea(x, negative, positive) ==
    ToBase(x.degrees, DigitChars) \o FormatMinutes(MicroMinutes(x.nano))
        \o <<",", IF IsNegative(x) THEN negative ELSE positive>>
\* l.98-108
convert_latitude_to_nmea_format(decimal_degree_latitude) ==
    Nmea(decimal_degree_latitude, "S", "N")
\* l.112-122
convert_longitude_to_nmea_format(decimal_degree_longitude) ==
    Nmea(decimal_degree_longitude, "W", "E")

\* strftime('%H%M%S') of a time in minutes since 2024-01-01T00:00: the
\* seconds are 00.
HHMMSS(minute) ==
    ZeroPad(ToBase((minute \div 60) % 24, DigitChars), 2)
        \o ZeroPad(ToBase(minute % 60, DigitChars), 2) \o <<"0", "0">>
GPGGA == <<"G", "P", "G", "G", "A">>
\* ",1,12,1.0,0.0,M,0.0,M,,"
FixBlock ==
    <<",", "1", ",", "1", "2", ",", "1", ".", "0", ",", "0", ".", "0", ",", "M",
      ",", "0", ".", "0", ",", "M", ",", ",">>
\* l.125-140, with what datetime.now() returned: the local time of the host.
get_mock_gps_location_in_nmea_gpgga_format(localNow) ==
    LET nmea == GPGGA \o <<",">> \o HHMMSS(localNow) \o <<",">>
                    \o convert_latitude_to_nmea_format(LATITUDE) \o <<",">>
                    \o convert_longitude_to_nmea_format(LONGITUDE) \o FixBlock
    IN  <<"$">> \o nmea \o <<"*">> \o get_checksum(nmea)

\* ------------------------------------------------------------- actions
NoFile == [exists |-> FALSE, rows |-> <<>>]
NoPoiFile == [exists |-> FALSE, lines |-> <<>>]

\* The configurations: each threshold as the source sets it, or None.
Configs ==
    [inactive : {MINUTES_UNTIL_APRS_INACTIVE, Disabled},
     removed : {MINUTES_UNTIL_APRS_REMOVED, Disabled},
     showComment : {TRUE}]

\* The process starts with an empty dict (l.50); neither file is there yet.
InitWith(configs) ==
    /\ now = StartNow
    /\ config \in configs
    /\ POI_DICTIONARY = <<>>
    /\ logFile = NoFile
    /\ poiFile = NoPoiFile
    /\ poiBuffer = <<>>
    /\ pc = "sleep"
    /\ todo = <<>>
    /\ batch = <<>>
    /\ examined = {}
    /\ rendered = <<>>

\* Nothing is printed yet; no call of the encoder on its own.
EmitterIdle == gps = <<>> /\ utcOffset = 0 /\ input = <<>> /\ output = <<>>

Init == InitWith(Configs) /\ EmitterIdle

\* The wall clock advances.
Tick ==
    /\ now < StartNow + MaxTicks
    /\ now' = now + 1
    /\ UNCHANGED <<config, POI_DICTIONARY, logFile, poiFile, poiBuffer, pc, todo,
                   batch, examined, rendered, emitter>>

\* Dire Wolf, another process, appends a row to its log (and creates the file).
\* The program looks at the log only in ingest (l.180-217): an append made
\* while evict or render runs is seen first by the next ingest, and is taken
\* here when that pass is over.
LoggerAppend(row) ==
    /\ pc \in {"sleep", "clear"}
    /\ Len(logFile.rows) < MaxLog
    /\ logFile' = [exists |-> TRUE, rows |-> Append(logFile.rows, row)]
    /\ UNCHANGED <<now, config, POI_DICTIONARY, poiFile, poiBuffer, pc, todo,
                   batch, examined, rendered, emitter>>

\* l.26-31: something other than the program clears the log away (logrotate
\* moves the file; Dire Wolf makes a new one at its next append).  Taken here
\* between two passes, where ingest is the next to look at the file.
LogRotated ==
    /\ pc = "sleep"
    /\ logFile.exists
    /\ logFile' = NoFile
    /\ UNCHANGED <<now, config, POI_DICTIONARY, poiFile, poiBuffer, pc, todo,
                   batch, examined, rendered, emitter>>

\* (mutant) no test at l.180: open() raises FileNotFoundError, the thread ends.
IngestMissingRaises ==
    /\ pc = "sleep"
    /\ ~logFile.exists
    /\ pc' = "error"
    /\ todo' = <<>>
    /\ UNCHANGED <<now, config, POI_DICTIONARY, logFile, poiFile, poiBuffer,
                   batch, examined, rendered, emitter>>

\* l.244, 247, 180: the sleep ends, there is no log file: ingest returns.
IngestMissing ==
    /\ pc = "sleep"
    /\ ~logFile.exists
    /\ pc' = "evict"
    /\ todo' = Keys(POI_DICTIONARY)
    /\ UNCHANGED <<now, config, POI_DICTIONARY, logFile, poiFile, poiBuffer,
                   batch, examined, rendered, emitter>>

\* l.244, 247, 183-211: the sleep ends, ingest reads the rows there are.
IngestRead ==
    /\ pc = "sleep"
    /\ logFile.exists
    /\ POI_DICTIONARY' = IngestRows(logFile.rows, POI_DICTIONARY)
    /\ IF CLEAR_DIRE_WOLF_CSV_LOG_FILE_AFTER_READING
       THEN pc' = "clear" /\ todo' = <<>> /\ batch' = logFile.rows
       ELSE pc' = "evict" /\ todo' = Keys(POI_DICTIONARY') /\ batch' = <<>>
    /\ UNCHANGED <<now, config, logFile, poiFile, poiBuffer, examined, rendered, emitter>>

\* l.214-217: the log is opened for writing, which empties it; then l.223.
ClearLog ==
    /\ pc = "clear"
    /\ logFile' = [exists |-> TRUE, rows |-> <<>>]
    /\ pc' = "evict"
    /\ todo' = Keys(POI_DICTIONARY)
    /\ batch' = <<>>
    /\ UNCHANGED <<now, config, POI_DICTIONARY, poiFile, poiBuffer, examined, rendered, emitter>>

\* l.223-238, one key: the clock is read anew for each.  A TypeError ends the
\* thread.
EvictStep ==
    /\ pc = "evict"
    /\ todo # <<>>
    /\ LET key == Head(todo)
           stale == IsStale(Get(POI_DICTIONARY, key), now)
       IN  IF stale = "raise"
           THEN /\ pc' = "error"
                /\ todo' = <<>>
                /\ UNCHANGED <<POI_DICTIONARY, examined, emitter>>
           ELSE /\ pc' = pc
                /\ todo' = Tail(todo)
                /\ examined' = examined \cup {[source |-> key, at |-> now]}
                /\ POI_DICTIONARY' = IF stale = "true"
                                     THEN DelItem(POI_DICTIONARY, key)
                                     ELSE POI_DICTIONARY
    /\ UNCHANGED <<now, config, logFile, poiFile, poiBuffer, batch, rendered, emitter>>

\* (mutant) the file is opened for appending.
RenderOpenAppend ==
    /\ pc = "evict"
    /\ todo = <<>>
    /\ poiFile' = [exists |-> TRUE, lines |-> poiFile.lines]
    /\ poiBuffer' = <<>>
    /\ pc' = "render"
    /\ todo' = SortedDescending(POI_DICTIONARY)
    /\ UNCHANGED <<now, config, POI_DICTIONARY, logFile, batch, examined, rendered, emitter>>

\* l.146-149: evict has returned; open(..., 'w+') creates or empties the file.
RenderOpen ==
    /\ pc = "evict"
    /\ todo = <<>>
    /\ poiFile' = [exists |-> TRUE, lines |-> <<>>]
    /\ poiBuffer' = <<>>
    /\ pc' = "render"
    /\ todo' = SortedDescending(POI_DICTIONARY)
    /\ UNCHANGED <<now, config, POI_DICTIONARY, logFile, batch, examined, rendered, emitter>>

\* l.152-174, one entry: the clock is read anew for each.  The line goes to the
\* stream's buffer.  A TypeError leaves the with block, which closes the stream
\* (the buffer reaches the disk), and ends the thread.
RenderStep ==
    /\ pc = "render"
    /\ todo # <<>>
    /\ IF IsInactive(Head(todo), now) = "raise"
       THEN /\ pc' = "error"
            /\ todo' = <<>>
            /\ poiFile' = [exists |-> TRUE, lines |-> poiFile.lines \o poiBuffer]
            /\ poiBuffer' = <<>>
       ELSE /\ pc' = pc
            /\ todo' = Tail(todo)
            /\ poiBuffer' = Append(poiBuffer, PoiLine(Head(todo), now))
            /\ poiFile' = poiFile
    /\ UNCHANGED <<now, config, POI_DICTIONARY, logFile, batch, examined, rendered, emitter>>

\* l.146: the with block ends, the stream is closed; then l.244, the sleep.
RenderClose ==
    /\ pc = "render"
    /\ todo = <<>>
    /\ poiFile' = [exists |-> TRUE, lines |-> poiFile.lines \o poiBuffer]
    /\ poiBuffer' = <<>>
    /\ rendered' = poiFile'.lines
    /\ examined' = {}
    /\ pc' = "sleep"
    /\ UNCHANGED <<now, config, POI_DICTIONARY, logFile, todo, batch, emitter>>

Next ==
    \/ Tick
    \/ \E row \in TimeRows : LoggerAppend(row)
    \/ IngestMissing
    \/ IngestRead
    \/ ClearLog
    \/ EvictStep
    \/ RenderOpen
    \/ RenderStep
    \/ RenderClose

Spec == Init /\ [][Next]_vars

\* The same program on the rows of FieldRows, with the configuration of the
\* source.
InitFields ==
    /\ InitWith({[inactive |-> MINUTES_UNTIL_APRS_INACTIVE,
                  removed |-> MINUTES_UNTIL_APRS_REMOVED, showComment |-> TRUE]})
    /\ EmitterIdle

NextFields ==
    \/ Tick
    \/ \E row \in FieldRows : LoggerAppend(row)
    \/ IngestMissing
    \/ IngestRead
    \/ ClearLog
    \/ EvictStep
    \/ RenderOpen
    \/ RenderStep
    \/ RenderClose

SpecFields == InitFields /\ [][NextFields]_vars

\* The program with the configuration of the source, its log cleared away
\* from outside now and then.
NextRotate ==
    \/ Tick
    \/ \E row \in TimeRows : LoggerAppend(row)
    \/ LogRotated
    \/ IngestMissing
    \/ IngestRead
    \/ ClearLog
    \/ EvictStep
    \/ RenderOpen
    \/ RenderStep
    \/ RenderClose

SpecRotate == InitFields /\ [][NextRotate]_vars

\* (mutant) the main thread prints only while the maintenance thread sleeps.
EmitLocked ==
    /\ pc = "sleep"
    /\ gps' = get_mock_gps_location_in_nmea_gpgga_format(now + utcOffset)
    /\ UNCHANGED <<now, config, POI_DICTIONARY, logFile, poiFile, poiBuffer, pc,
                   todo, batch, examined, rendered, utcOffset, input, output>>

\* l.267-270: the main thread's sleep ends and it prints a fix sentence.
Emit ==
    /\ gps' = get_mock_gps_location_in_nmea_gpgga_format(now + utcOffset)
    /\ UNCHANGED <<now, config, POI_DICTIONARY, logFile, poiFile, poiBuffer, pc,
                   todo, batch, examined, rendered, utcOffset, input, output>>

\* The time zones of the host: UTC, and Arizona's (UTC-7, where l.13-14 lie).
HostOffsets == {0, -420}
\* The reports the logger writes while the main thread is looked at.
GpsRows ==
    {row \in TimeRows : row.isotime \in {<<"2024-01-01", 0, 1, "Z">>,
                                          <<"2024-01-01", 0, 56, "Z">>,
                                          <<"2024-01-01", 1, 0, "+01:00">>}}

\* Both threads, with the configuration of the source.
InitGps ==
    /\ InitWith({[inactive |-> MINUTES_UNTIL_APRS_INACTIVE,
                  removed |-> MINUTES_UNTIL_APRS_REMOVED, showComment |-> TRUE]})
    /\ gps = <<>>
    /\ utcOffset \in HostOffsets
    /\ input = <<>>
    /\ output = <<>>

NextGps ==
    \/ Tick
    \/ \E row \in GpsRows : LoggerAppend(row)
    \/ IngestMissing
    \/ IngestRead
    \/ ClearLog
    \/ EvictStep
    \/ RenderOpen
    \/ RenderStep
    \/ RenderClose
    \/ Emit

SpecGps == InitGps /\ [][NextGps]_vars

\* Reports that differ by their comment: a word, the word after a blank, a
\* word between blanks, nothing, blanks only, and no comment field at all.
LabelRows ==
    { Row(Fresh, N0CALL, Lat331, Lon1121, Test),
      Row(Fresh, N0CALL, Lat331, Lon1121, <<" ">> \o Test),
      Row(Fresh, W1AW, Lat331, Lon1121, <<" ">> \o Test \o <<"\t">>),
      Row(Fresh, W1AW, Lat331, Lon1121, <<>>),
      Row(Fresh, N0CALL, Lat331, Lon1121, <<" ", "\t">>),
      Row(Fresh, W1AW, Lat331, Lon1121, None) }

\* The program with SHOW_COMMENT_FIELD (l.35) set either way.
InitLabel ==
    /\ InitWith([inactive : {MINUTES_UNTIL_APRS_INACTIVE},
                 removed : {MINUTES_UNTIL_APRS_REMOVED},
                 showComment : BOOLEAN])
    /\ EmitterIdle

NextLabel ==
    \/ Tick
    \/ \E row \in LabelRows : LoggerAppend(row)
    \/ IngestMissing
    \/ IngestRead
    \/ ClearLog
    \/ EvictStep
    \/ RenderOpen
    \/ RenderStep
    \/ RenderClose

SpecLabel == InitLabel /\ [][NextLabel]_vars

\* ------------------------------------------ the encoder's functions alone
\* Characters of 8-bit codes a sentence body is made of here.
BodyChars == {"U+0000", "U+0001", "*", "A", "a", "U+0080", "U+00FF"}
RECURSIVE TextsUpTo(_, _)
TextsUpTo(chars, n) ==
    IF n = 0 THEN {<<>>}
    ELSE LET shorter == TextsUpTo(chars, n - 1)
         IN  shorter \cup {Append(t, c) : t \in shorter, c \in chars}
\* Coordinates in range: |latitude| < 90, |longitude| < 180.
LatitudeInputs ==
    {Coordinate(neg, degrees, nano) :
        neg \in BOOLEAN, degrees \in {0, 5, 33, 89},
        nano \in {0, 8333340, 435000000, 500000000, 999999991, 999999992}}
LongitudeInputs ==
    {Coordinate(neg, degrees, nano) :
        neg \in BOOLEAN, degrees \in {0, 5, 33, 89, 112, 179},
        nano \in {0, 8333340, 435000000, 500000000, 999999991, 999999992}}
EncoderInputs ==
    {[function |-> "get_checksum", argument |-> t] : t \in TextsUpTo(BodyChars, MaxBody)}
      \cup {[function |-> "convert_latitude_to_nmea_format", argument |-> x] :
                x \in LatitudeInputs}
      \cup {[function |-> "convert_longitude_to_nmea_format", argument |-> x] :
                x \in LongitudeInputs}

\* One of the three functions is about to be called on an argument.
InitEncoder ==
    /\ InitWith({[inactive |-> MINUTES_UNTIL_APRS_INACTIVE,
                  removed |-> MINUTES_UNTIL_APRS_REMOVED, showComment |-> TRUE]})
    /\ gps = <<>>
    /\ utcOffset = 0
    /\ input \in EncoderInputs
    /\ output = <<>>

Program == <<now, config, POI_DICTIONARY, logFile, poiFile, poiBuffer, pc, todo,
             batch, examined, rendered>>
\* l.83-94
CallChecksum ==
    /\ input.function = "get_checksum"
    /\ output' = get_checksum(input.argument)
    /\ UNCHANGED <<Program, gps, utcOffset, input>>
\* l.98-108
CallConvertLatitude ==
    /\ input.function = "convert_latitude_to_nmea_format"
    /\ output' = convert_latitude_to_nmea_format(input.argument)
    /\ UNCHANGED <<Program, gps, utcOffset, input>>
\* l.112-122
CallConvertLongitude ==
    /\ input.function = "convert_longitude_to_nmea_format"
    /\ output' = convert_longitude_to_nmea_format(input.argument)
    /\ UNCHANGED <<Program, gps, utcOffset, input>>

NextEncoder == CallChecksum \/ CallConvertLatitude \/ CallConvertLongitude

SpecEncoder == InitEncoder /\ [][NextEncoder]_vars

\* ======================================================================
\* Properties
\* ======================================================================
UniqueKeys(dict) ==
    \A i, j \in 1..Len(dict) : dict[i].source = dict[j].source => i = j
\* The report time of a stored isotime string, in minutes UTC.
UtcMinute(iso) ==
    LET t == fromisoformat(ReplaceZ(iso)) IN t.minute - t.utcoffset
\* The last row of rows that the validator admits for the source key.
LastAdmitted(rows, key) ==
    LET at == {i \in 1..Len(rows) : all_valid(rows[i]) /\ rows[i].source = key}
    IN  rows[CHOOSE i \in at : \A j \in at : j <= i]

\* C1: the Position Store never holds two entries for one source, and when
\* ingest has read a batch, the entry of every source with an admitted row in
\* the batch is the one built from the last such row in file order, whatever
\* the timestamps (last-write-wins).
C1_LastWriteWins ==
    /\ UniqueKeys(POI_DICTIONARY)
    /\ pc = "clear" =>
         \A i \in 1..Len(batch) :
            all_valid(batch[i]) =>
              /\ HasKey(POI_DICTIONARY, batch[i].source)
              /\ Get(POI_DICTIONARY, batch[i].source)
                   = EntryOf(LastAdmitted(batch, batch[i].source))

\* A batch of two rows of N0CALL, the second with the earlier timestamp and
\* another latitude, has been read: the store holds the second row's values.
C1_Witness ==
    /\ pc = "clear"
    /\ batch = << Row(<<"2024-01-01", 0, 1, "Z">>, N0CALL, Lat331, Lon1121, <<" ">> \o Test),
                  Row(<<"2024-01-01", 0, 0, "Z">>, N0CALL, Lat332, Lon1121, <<>>) >>
    /\ Len(POI_DICTIONARY) = 1
    /\ POI_DICTIONARY[1].latitude = Lat332
    /\ POI_DICTIONARY[1].isotime = <<"2024-01-01", 0, 0, "Z">>

\* C2: with a removal threshold configured, a step of evict removes the entry
\* it examines iff timestamp + removalThreshold < now, and leaves every other
\* entry as it was; when evict is through, every entry left was examined and
\* was not past the threshold then.
C2_EvictExactlyStale ==
    /\ [][(/\ pc = "evict" /\ todo # <<>> /\ pc' = "evict" /\ todo' = Tail(todo)
           /\ config.removed # Disabled)
          => LET entry == Get(POI_DICTIONARY, Head(todo))
             IN  IF UtcMinute(entry.isotime) + config.removed < now
                 THEN POI_DICTIONARY' = SelectSeq(POI_DICTIONARY, LAMBDA e : e # entry)
                 ELSE POI_DICTIONARY' = POI_DICTIONARY]_vars
    /\ [](pc = "evict" /\ todo = <<>> /\ config.removed # Disabled
          => \A i \in 1..Len(POI_DICTIONARY) :
               \E x \in examined :
                  /\ x.source = POI_DICTIONARY[i].source
                  /\ ~(UtcMinute(POI_DICTIONARY[i].isotime) + config.removed < x.at))

\* Evict is through at 01:01: W1AW, heard at 00:00 UTC (61 minutes), is gone;
\* N0CALL, heard at 00:01 (60 minutes), is still there.
C2_Witness ==
    /\ pc = "evict" /\ todo = <<>>
    /\ config.removed = MINUTES_UNTIL_APRS_REMOVED
    /\ examined = {[source |-> N0CALL, at |-> 61], [source |-> W1AW, at |-> 61]}
    /\ Len(POI_DICTIONARY) = 1
    /\ POI_DICTIONARY[1].source = N0CALL
    /\ POI_DICTIONARY[1].isotime = <<"2024-01-01", 0, 1, "Z">>

\* C3: the line render writes for an entry names the inactive icon iff an
\* inactivity threshold is configured and timestamp + inactivityThreshold <
\* now, and the active icon otherwise.
C3_IconByAge ==
    [][(pc = "render" /\ todo # <<>> /\ pc' = "render" /\ todo' = Tail(todo))
       => LET entry == Head(todo)
              line == poiBuffer'[Len(poiBuffer')]
              inactive == /\ config.inactive # Disabled
                          /\ UtcMinute(entry.isotime) + config.inactive < now
          IN  /\ Len(poiBuffer') = Len(poiBuffer) + 1
              /\ line.icon_src = IF inactive THEN "gprs_inactive.png"
                                 ELSE "gprs_active.png"]_vars

\* At 01:01 render has written W1AW, heard at 00:55 (6 minutes), as inactive
\* and N0CALL, heard at 00:56 (5 minutes), as active.
C3_Witness ==
    /\ pc = "render" /\ now = 61
    /\ config.inactive = MINUTES_UNTIL_APRS_INACTIVE
    /\ \E i, j \in 1..Len(poiBuffer) :
          /\ poiBuffer[i].isotime = <<"2024-01-01", 0, 55, "+00:00">>
          /\ poiBuffer[i].icon_src = "gprs_inactive.png"
          /\ poiBuffer[j].isotime = <<"2024-01-01", 0, 56, "Z">>
          /\ poiBuffer[j].icon_src = "gprs_active.png"

\* text is a number strictly between -bound and bound degrees.
WithinDegrees(text, bound) ==
    LET f == ParseFloat(text)
    IN  text # None /\ f.ok /\ ~f.nan /\ -1000 * bound < f.milli /\ f.milli < 1000 * bound

\* C4: every entry of the Position Store has a latitude that parses as a
\* number strictly within (-90, 90).
C4_LatitudeInRange ==
    \A i \in 1..Len(POI_DICTIONARY) : WithinDegrees(POI_DICTIONARY[i].latitude, 90)

\* Ingest has read a valid row of N0CALL and then a row of N0CALL with the
\* latitude "95.0": the store still holds the first row's entry.
C4_Witness ==
    /\ pc = "clear"
    /\ batch = << Row(Fresh, N0CALL, Lat331, Lon1121, Test),
                  Row(Fresh, N0CALL, <<"9", "5", ".", "0">>, Lon1121, Test) >>
    /\ POI_DICTIONARY = << EntryOf(Row(Fresh, N0CALL, Lat331, Lon1121, Test)) >>

\* C5: every entry of the Position Store has a longitude that parses as a
\* number strictly within (-180, 180).
C5_LongitudeInRange ==
    \A i \in 1..Len(POI_DICTIONARY) : WithinDegrees(POI_DICTIONARY[i].longitude, 180)

\* C6: no key of the Position Store is the empty string, a purely-whitespace
\* string or the header token "source".
C6_SourceKeys ==
    \A i \in 1..Len(POI_DICTIONARY) :
       LET key == POI_DICTIONARY[i].source
       IN  /\ key # None
           /\ key # <<>>
           /\ \E k \in 1..Len(key) : key[k] \notin Whitespace
           /\ key # SourceHeader

\* C7: the timestamp of every stored entry parses, and evict and render
\* compare it against UTC now without raising: the maintenance thread is
\* never ended by an error.
C7_NoTimestampError ==
    /\ \A i \in 1..Len(POI_DICTIONARY) :
          fromisoformat(ReplaceZ(POI_DICTIONARY[i].isotime)).ok
    /\ pc # "error"

\* The steps of a maintenance cycle come in the order ingest, evict, render.
CycleOrder ==
    pc' # pc =>
      <<pc, pc'>> \in { <<"sleep", "clear">>, <<"sleep", "evict">>, <<"clear", "evict">>,
                        <<"evict", "render">>, <<"evict", "error">>,
                        <<"render", "sleep">>, <<"render", "error">> }
\* Render writes a line.
WritesLine ==
    pc = "render" /\ todo # <<>> /\ pc' = "render" /\ todo' = Tail(todo)

\* C8 as claimed: the steps come in the order ingest, evict, render, and no
\* line is written for an entry with timestamp + removalThreshold < now at the
\* time the line is written.
C8_NoExpiredLineAtWrite ==
    [][/\ CycleOrder
       /\ (WritesLine /\ config.removed # Disabled)
          => ~(UtcMinute(Head(todo).isotime) + config.removed < now)]_vars

\* C8 as amended: the steps come in the order ingest, evict, render, and every
\* line written in a pass is for an entry that evict examined in that pass and
\* that did not have timestamp + removalThreshold < now at that moment.
C8_NoLineExpiredAtEvict ==
    [][/\ CycleOrder
       /\ (WritesLine /\ config.removed # Disabled)
          => \E x \in examined :
                /\ x.source = Head(todo).source
                /\ ~(UtcMinute(Head(todo).isotime) + config.removed < x.at)]_vars

\* Render is through with a pass in which evict removed an entry it had
\* examined and kept another, whose line is written.
C8_Witness ==
    /\ pc = "render" /\ todo = <<>>
    /\ config.removed # Disabled
    /\ poiBuffer # <<>>
    /\ \E x \in examined : ~HasKey(POI_DICTIONARY, x.source)

\* C9: the POI file on disk always holds the lines of a render that
\* completed (the previous pass's or, once it has completed, this one's).
C9_NoPartialPoiFile == poiFile.lines = rendered

\* The line render writes for an entry, but for the icon.
SameEntry(line, entry) ==
    /\ line.longitude = entry.longitude
    /\ line.latitude = entry.latitude
    /\ line.isotime = entry.isotime
    /\ line.label = Label(entry)

\* C10: when render has completed, the POI file holds one line for each entry
\* of the Position Store and no other line.
C10_FileMatchesStore ==
    (pc = "sleep" /\ poiFile.exists) =>
       /\ Len(poiFile.lines) = Len(POI_DICTIONARY)
       /\ \A i \in 1..Len(POI_DICTIONARY) :
             Cardinality({j \in 1..Len(poiFile.lines) :
                            SameEntry(poiFile.lines[j], POI_DICTIONARY[i])}) = 1

\* A render has completed on a store of two entries, one written as active
\* and one as inactive; the file holds their two lines.
C10_Witness ==
    /\ pc = "sleep"
    /\ Len(POI_DICTIONARY) = 2
    /\ Len(poiFile.lines) = 2
    /\ \E i, j \in 1..2 :
          /\ poiFile.lines[i].icon_src = "gprs_active.png"
          /\ poiFile.lines[j].icon_src = "gprs_inactive.png"


\* True when the stored string carries a zone designator or an offset.
IsAware(iso) == fromisoformat(ReplaceZ(iso)).aware
\* The place in the dict of the entry a line was written for.
PlaceOf(dict, line) ==
    CHOOSE i \in 1..Len(dict) :
        dict[i].isotime = line.isotime /\ Label(dict[i]) = line.label

\* C11: the lines render writes are in descending order of report time, the
\* most recent instant first, whatever zone designators or offsets the
\* timestamps are written with; two entries of the same instant are written
\* in the order the store holds them.
C11_DescendingByInstant ==
    \A i, j \in 1..Len(poiBuffer) :
        (i < j /\ IsAware(poiBuffer[i].isotime) /\ IsAware(poiBuffer[j].isotime))
        => /\ UtcMinute(poiBuffer[i].isotime) >= UtcMinute(poiBuffer[j].isotime)
           /\ UtcMinute(poiBuffer[i].isotime) = UtcMinute(poiBuffer[j].isotime)
              => PlaceOf(POI_DICTIONARY, poiBuffer[i])
                     < PlaceOf(POI_DICTIONARY, poiBuffer[j])

\* C12: with the removal threshold disabled, evict changes nothing, whatever
\* the store and the clock: no step of evict alters the store or fails, and
\* over any sequence of cycles every source in the store stays in it.
C12_DisabledEvictIsNoOp ==
    [][config.removed = Disabled
       => /\ \A i \in 1..Len(POI_DICTIONARY) :
                HasKey(POI_DICTIONARY', POI_DICTIONARY[i].source)
          /\ pc = "evict" => POI_DICTIONARY' = POI_DICTIONARY /\ pc' # "error"]_vars

\* Removal is disabled and evict is through at 01:01 having examined both
\* entries: W1AW, heard 61 minutes ago, is still in the store.
C12_Witness ==
    /\ config.removed = Disabled
    /\ pc = "evict" /\ todo = <<>>
    /\ examined = {[source |-> N0CALL, at |-> 61], [source |-> W1AW, at |-> 61]}
    /\ HasKey(POI_DICTIONARY, W1AW)
    /\ Get(POI_DICTIONARY, W1AW).isotime = <<"2024-01-01", 1, 0, "+01:00">>

\* C13: when the sleep ends and there is no log file, ingest returns without
\* an error, having changed neither the store nor the file system (no log
\* file is made), and the pass goes on to evict, over the keys of the store
\* as it was; render follows evict as in every pass.
C13_MissingLogSkipsIngestOnly ==
    /\ [][(pc = "sleep" /\ ~logFile.exists /\ pc' # "sleep")
          => /\ pc' = "evict"
             /\ todo' = Keys(POI_DICTIONARY)
             /\ POI_DICTIONARY' = POI_DICTIONARY
             /\ logFile' = logFile
             /\ poiFile' = poiFile]_vars
    /\ [][(pc = "evict" /\ pc' \notin {"evict", "error"})
          => pc' = "render" /\ todo' = SortedDescending(POI_DICTIONARY)]_vars

\* The log was cleared away after N0CALL's report of 00:56Z was ingested; the
\* next pass found no log, and its render has written N0CALL's line.
C13_Witness ==
    /\ pc = "render" /\ todo = <<>>
    /\ ~logFile.exists
    /\ Len(poiBuffer) = 1
    /\ poiBuffer[1].isotime = <<"2024-01-01", 0, 56, "Z">>
    /\ Keys(POI_DICTIONARY) = <<N0CALL>>

\* The store after upserting every row of rows, in order, none skipped.
UpsertAll(rows, dict) ==
    LET F[k \in 0..Len(rows)] ==
            IF k = 0 THEN dict ELSE SetItem(F[k - 1], rows[k].source, EntryOf(rows[k]))
    IN  F[Len(rows)]

\* C14: a row the validator rejects (fields missing, latitude malformed or out
\* of range, timestamp malformed, the header row) neither ends the batch nor
\* changes the store: ingest leaves the store as upserting the batch's valid
\* rows alone, in their order, would, so a valid row after a rejected one is
\* upserted all the same.
C14_InvalidRowsSkipped ==
    [][(pc = "sleep" /\ logFile.exists /\ pc' = "clear")
       => /\ POI_DICTIONARY' = UpsertAll(SelectSeq(logFile.rows, all_valid), POI_DICTIONARY)
          /\ batch' = logFile.rows]_vars

\* Ingest has read a row with latitude 95.0 and then a valid row of N0CALL:
\* the store holds the valid row's entry.
C14_Witness ==
    /\ pc = "clear"
    /\ batch = <<Row(Fresh, N0CALL, <<"9", "5", ".", "0">>, Lon1121, Test),
                 Row(Fresh, N0CALL, Lat331, Lon1121, Test)>>
    /\ POI_DICTIONARY = <<EntryOf(Row(Fresh, N0CALL, Lat331, Lon1121, Test))>>

\* The entries of dict are entries of old, in the order they have there.
OnlyRemoved(old, dict) ==
    dict = SelectSeq(old, LAMBDA e : \E i \in 1..Len(dict) : dict[i] = e)

\* C15: the store changes in ingest and in evict only.  A step of ingest adds
\* or replaces entries and drops no source; a step of evict removes entries
\* and neither adds nor alters one; open, write and close of render leave the
\* store as it is.  A step of the main thread, printing a fix sentence, leaves
\* the store, the POI file and the maintenance thread as they are, and can be
\* taken wherever the maintenance thread is.
C15_FrameOfStoreAndEmitter ==
    /\ [][POI_DICTIONARY' # POI_DICTIONARY
          => \/ /\ pc = "sleep" /\ pc' = "clear"
                /\ \A i \in 1..Len(POI_DICTIONARY) :
                      HasKey(POI_DICTIONARY', POI_DICTIONARY[i].source)
             \/ /\ pc = "evict" /\ pc' = "evict" /\ todo # <<>>
                /\ OnlyRemoved(POI_DICTIONARY, POI_DICTIONARY')]_vars
    /\ [][gps' # gps
          => UNCHANGED <<POI_DICTIONARY, poiFile, poiBuffer, logFile, pc, todo>>]_vars
    /\ [](ENABLED Emit)

\* The main thread has printed a sentence while render was between the lines
\* of W1AW and N0CALL; ingest had stored both.
C15_Witness ==
    /\ gps # <<>>
    /\ pc = "render"
    /\ Len(poiBuffer) = 1 /\ Len(todo) = 1
    /\ Keys(POI_DICTIONARY) = <<N0CALL, W1AW>>
    /\ rendered = <<>>

\* C16: the label of the line render writes for an entry is the source alone
\* when the comment flag is off or the entry's comment, trimmed, is empty, and
\* the source, " - " with an em dash, and the comment when the flag is on and
\* the comment is not empty; the comment the store keeps is the trimmed one.
C16_LabelByFlagAndComment ==
    /\ [][(pc = "render" /\ todo # <<>> /\ pc' = "render" /\ todo' = Tail(todo))
          => LET entry == Head(todo)
                 label == poiBuffer'[Len(poiBuffer')].label
             IN  IF config.showComment /\ Strip(entry.comment) # <<>>
                 THEN label = entry.source \o <<" ", "U+2014", " ">> \o Strip(entry.comment)
                 ELSE label = entry.source]_vars
    /\ [](\A i \in 1..Len(POI_DICTIONARY) :
            POI_DICTIONARY[i].comment = Strip(POI_DICTIONARY[i].comment))

\* The flag is on; N0CALL's report came with the comment " test", W1AW's with
\* none: render has written the labels "N0CALL - test" (em dash) and "W1AW".
C16_Witness ==
    /\ config.showComment
    /\ pc = "render" /\ todo = <<>>
    /\ batch = <<>>
    /\ Len(poiBuffer) = 2
    /\ poiBuffer[1].label = N0CALL \o <<" ", "U+2014", " ">> \o Test
    /\ poiBuffer[2].label = W1AW
    /\ Get(POI_DICTIONARY, W1AW).comment = <<>>

\* The number a text of upper-case hex digits writes.
HexValue(text) ==
    LET F[k \in 0..Len(text)] ==
            IF k = 0 THEN 0
            ELSE 16 * F[k - 1] + (CHOOSE d \in 0..15 : HexDigits[d + 1] = text[k])
    IN  F[Len(text)]
\* Bit k of a code.
Bit(code, k) == (code \div (2 ^ k)) % 2

\* C17: the checksum of a body of characters of 8-bit codes is a text of
\* exactly two upper-case hex digits, zero-padded; bit k of the number it
\* writes is 1 iff the body's characters with bit k set in their code are odd
\* in number, which is the XOR of the codes; the checksum of the empty body is
\* "00".
C17_ChecksumIsXorInTwoHexDigits ==
    (input # <<>> /\ input.function = "get_checksum" /\ output # <<>>)
    => /\ Len(output) = 2
       /\ \A i \in 1..2 : \E d \in 1..16 : output[i] = HexDigits[d]
       /\ \A k \in 0..7 :
             Bit(HexValue(output), k)
               = Cardinality({i \in 1..Len(input.argument) :
                                 Bit(Ord(input.argument[i]), k) = 1}) % 2
       /\ input.argument = <<>> => output = <<"0", "0">>

\* get_checksum has returned "0A" for the body "Aa*": the codes are 41, 61
\* and 2A in hex, and their XOR is 0A.
C17_Witness ==
    /\ input # <<>> /\ input.function = "get_checksum"
    /\ input.argument = <<"A", "a", "*">>
    /\ output = <<"0", "A">>

\* What an encoded coordinate reads as: the hemisphere letter after the comma,
\* the nine characters before the comma as minutes (in millionths), the digits
\* before those as degrees.
Decoded(text) ==
    LET n == Len(text)
    IN  [letter |-> text[n],
         comma |-> text[n - 1],
         point |-> text[n - 8],
         micro |-> DigitsValue(SubSeq(text, n - 10, n - 9)) * 1000000
                       + DigitsValue(SubSeq(text, n - 7, n - 2)),
         degrees |-> DigitsValue(SubSeq(text, 1, n - 11))]
\* How far, in billionths of a minute, the minutes read are from the exact
\* minutes of the fraction nano (taken in two parts to stay within 32 bits).
MinutesError(micro, nano) ==
    LET d == (micro - (nano \div 1000) * 60) * 1000 - (nano % 1000) * 60
    IN  IF d < 0 THEN 0 - d ELSE d

\* C18: an encoded coordinate, read back, is the coordinate within the
\* rounding to six decimals of a minute: the degrees are its whole degrees,
\* the minutes field of nine characters is its fraction in minutes to half a
\* millionth, and the letter is S or W iff it is negative; and the minutes
\* field is always below 60.
C18_RoundTripMinutesBelow60 ==
    (input # <<>> /\ input.function # "get_checksum" /\ output # <<>>)
    => LET x == input.argument
           read == Decoded(output)
           letters == IF input.function = "convert_latitude_to_nmea_format"
                      THEN <<"S", "N">> ELSE <<"W", "E">>
       IN  /\ read.comma = "," /\ read.point = "."
           /\ read.degrees = x.degrees
           /\ MinutesError(read.micro, x.nano) <= 500
           /\ read.letter = IF IsNegative(x) THEN letters[1] ELSE letters[2]
           /\ read.micro < 60000000

\* "3326.100000,N" and "11200.500000,W": 33.435 and -112.00833334 encoded.
EncodedLatitude ==
    <<"3", "3", "2", "6", ".", "1", "0", "0", "0", "0", "0", ",", "N">>
EncodedLongitude ==
    <<"1", "1", "2", "0", "0", ".", "5", "0", "0", "0", "0", "0", ",", "W">>

\* C19: a fix sentence, when it is printed, carries the UTC time of the moment
\* as HHMMSS, whatever the time zone of the host, then the configured latitude
\* and longitude encoded, and ends with "*" and the checksum of the text
\* between "$" and "*".
C19_SentenceCarriesUtcTime ==
    [][gps' # gps
       => LET n == Len(gps')
          IN  /\ SubSeq(gps', 1, 7) = <<"$">> \o GPGGA \o <<",">>
              /\ SubSeq(gps', 8, 13) = HHMMSS(now)
              /\ SubSeq(gps', 14, 42)
                   = <<",">> \o EncodedLatitude \o <<",">> \o EncodedLongitude
              /\ gps'[n - 2] = "*"
              /\ SubSeq(gps', n - 1, n) = get_checksum(SubSeq(gps', 2, n - 3))]_vars

\* C20: the truncation of the log after ingest discards only rows that ingest
\* has read: with the logger appending at any time, the rows in the file when
\* it is emptied are the rows of the batch just ingested, so that no row is
\* erased between being written and being read.
C20_TruncationDiscardsOnlyReadRows ==
    [][(pc = "clear" /\ pc' = "evict") => logFile.rows = batch]_vars
=============================================================================
